---- MODULE Spec2Model ----
(***************************************************************************)
(* Model of the howmany30 application: the NBA stats client (lib/nba, as   *)
(* listed in src/proxy/README.md), the two API route handlers, the         *)
(* ShotsTo30Calculator component and the proxy server.                     *)
(*                                                                         *)
(* Numbers are JavaScript numbers scaled by 100 (27.5 is 2750), carried in *)
(* a record together with their kind (finite, NaN, +/-Infinity).           *)
(***************************************************************************)
EXTENDS Integers, Sequences, FiniteSets, TLC

VARIABLES
    \* ---- server environment
    today,          \* [year, month] read by new Date()
    proxyEnv,       \* process.env.NBA_STATS_PROXY_URL is set
    \* ---- server: stats route + fetchPlayerSeasonAverages / tryPreviousSeason
    statsPc,        \* position of the stats request: idle, awaitCur, awaitPrev, awaitInfo, done
    idParam,        \* the id path segment of the stats route
    outbound,       \* the outbound calls the stats client issued, in order
    curResponse,    \* the response to the current-season dashboard call
    prevResponse,   \* the response to the previous-season dashboard call
    playerResponse, \* the response to the commonplayerinfo call
    pts, fga,       \* the locals pts and fga held across the identity lookup
    clientCalls,    \* how often the route called fetchPlayerSeasonAverages
    stats,          \* what fetchPlayerSeasonAverages returned
    statsHttp,      \* the route's response
    \* ---- server: search route + searchPlayers
    searchPc,       \* position of the search request: idle, awaitPlayers, done
    qParam,         \* searchParams.get("q"): null or a string
    searchOutbound, \* the outbound calls searchPlayers issued, in order
    playersResponse, \* the response to the commonallplayers call
    searchCalls,    \* how often the route called searchPlayers
    searchReturn,   \* what searchPlayers returned
    searchHttp,     \* the route's response
    \* ---- browser: ShotsTo30Calculator
    searchQuery, searchResults, searchMeta, searchLoading,
    selectedPlayer, result, loading, error,   \* the component's useState values
    timer,          \* the pending debounce timeout of the search effect, if any
    searchInflight, \* the search requests sent and not yet answered
    statsInflight,  \* the stats requests sent and not yet answered
    \* ---- proxy server
    proxyPc,        \* position of the proxy: idle, awaitUpstream, done, hung, crashed
    proxyReq,       \* the request being handled: method, path and url parameter
    proxyFetches,   \* the upstream fetches of the request being handled
    proxyRes        \* the response written to the request being handled

envVars == <<today, proxyEnv>>

statsVars == <<statsPc, idParam, outbound, curResponse, prevResponse,
               playerResponse, pts, fga, clientCalls, stats, statsHttp>>

searchVars == <<searchPc, qParam, searchOutbound, playersResponse, searchCalls,
                searchReturn, searchHttp>>

uiVars == <<searchQuery, searchResults, searchMeta, searchLoading, selectedPlayer, result,
            loading, error, timer, searchInflight, statsInflight>>

proxyVars == <<proxyPc, proxyReq, proxyFetches, proxyRes>>

vars == <<envVars, statsVars, searchVars, uiVars, proxyVars>>

-----------------------------------------------------------------------------
(* JavaScript values *)

Fin(n) == [k |-> "fin", v |-> n]
NaN == [k |-> "nan", v |-> 0]
PosInf == [k |-> "inf", v |-> 0]
NegInf == [k |-> "ninf", v |-> 0]

isNaN(x) == x.k = "nan"
isFinite(x) == x.k = "fin"

\* a cell of a rowSet: a number, a string, null, or undefined (index past the row)
NumCell(n) == [t |-> "num", n |-> n, s |-> ""]
StrCell(s) == [t |-> "str", n |-> 0, s |-> s]
NullCell == [t |-> "null", n |-> 0, s |-> ""]
Undefined == [t |-> "undefined", n |-> 0, s |-> ""]

Digits == {"0", "1", "2", "3", "4", "5", "6", "7", "8", "9"}
DigitVal == ("0" :> 0) @@ ("1" :> 1) @@ ("2" :> 2) @@ ("3" :> 3) @@ ("4" :> 4) @@
            ("5" :> 5) @@ ("6" :> 6) @@ ("7" :> 7) @@ ("8" :> 8) @@ ("9" :> 9)

\* the i-th character of s
CharAt(s, i) == SubSeq(s, i, i)

IsWhiteSpace(c) == c = " "

RECURSIVE TrimStart(_)
TrimStart(s) ==
    IF s # "" /\ IsWhiteSpace(Head(s)) THEN TrimStart(Tail(s)) ELSE s

RECURSIVE TrimEnd(_)
TrimEnd(s) ==
    IF s # "" /\ IsWhiteSpace(CharAt(s, Len(s))) THEN TrimEnd(SubSeq(s, 1, Len(s) - 1)) ELSE s

\* String.prototype.trim
Trim(s) == TrimEnd(TrimStart(s))

AllDigits(s) == \A i \in 1..Len(s) : CharAt(s, i) \in Digits

RECURSIVE DigitsValue(_)
DigitsValue(s) ==
    IF s = "" THEN 0 ELSE 10 * DigitsValue(SubSeq(s, 1, Len(s) - 1)) + DigitVal[CharAt(s, Len(s))]

InfinityLiteral == "Infinity"

\* the position of the first "." of s, 0 when there is none
DotIndex(s) ==
    IF \E i \in 1..Len(s) : CharAt(s, i) = "."
    THEN CHOOSE i \in 1..Len(s) : CharAt(s, i) = "." /\ \A j \in 1..(i - 1) : CharAt(s, j) # "."
    ELSE 0

\* StrDecimalLiteral without exponent: digits, digits.digits, digits., .digits
IsDecimalLiteral(s) ==
    LET d == DotIndex(s)
        int == IF d = 0 THEN s ELSE SubSeq(s, 1, d - 1)
        frac == IF d = 0 THEN "" ELSE SubSeq(s, d + 1, Len(s))
    IN  /\ AllDigits(int)
        /\ AllDigits(frac)
        /\ Len(int) + Len(frac) > 0

\* the value of a decimal literal, scaled by 100 (literals carry at most two decimals)
DecimalValue(s) ==
    LET d == DotIndex(s)
        int == IF d = 0 THEN s ELSE SubSeq(s, 1, d - 1)
        frac == IF d = 0 THEN "" ELSE SubSeq(s, d + 1, Len(s))
        f2 == SubSeq(frac \o "00", 1, 2)
    IN  100 * DigitsValue(int) + DigitsValue(f2)

\* Number(string): StringToNumber on the literals above
StringToNumber(s) ==
    LET t == Trim(s)
        signed == t # "" /\ Head(t) \in {"-", "+"}
        neg == t # "" /\ Head(t) = "-"
        u == IF signed THEN Tail(t) ELSE t
    IN  IF t = "" THEN Fin(0)
        ELSE IF u = InfinityLiteral THEN (IF neg THEN NegInf ELSE PosInf)
        ELSE IF IsDecimalLiteral(u) THEN Fin(IF neg THEN 0 - DecimalValue(u) ELSE DecimalValue(u))
        ELSE NaN

\* Number(cell)
ToNumber(c) ==
    CASE c.t = "num" -> Fin(c.n)
      [] c.t = "null" -> Fin(0)
      [] c.t = "undefined" -> NaN
      [] c.t = "str" -> StringToNumber(c.s)

\* Number(x.toFixed(1)) of a finite x: the nearest tenth, the larger one on a tie
\* (of the magnitude: toFixed rounds -x and prefixes the sign)
RoundTenth(n) ==
    IF n < 0 THEN 0 - ((((0 - n) + 5) \div 10) * 10) ELSE ((n + 5) \div 10) * 10

toFixed1(x) == IF x.k = "fin" THEN Fin(RoundTenth(x.v)) ELSE x

\* Array.prototype.indexOf, 0-based, -1 when absent
indexOf(arr, x) ==
    IF \E i \in 1..Len(arr) : arr[i] = x
    THEN (CHOOSE i \in 1..Len(arr) : arr[i] = x /\ \A j \in 1..(i - 1) : arr[j] # x) - 1
    ELSE -1

\* row[i] for a 0-based index i
At(row, i) == IF i >= 0 /\ i < Len(row) THEN row[i + 1] ELSE Undefined

-----------------------------------------------------------------------------
(* Seasons *)

\* `${a}-${String(b).slice(-2)}`
SeasonString(a, b) ==
    LET digits == ToString(b)
    IN  ToString(a) \o "-" \o
        (IF Len(digits) <= 2 THEN digits ELSE SubSeq(digits, Len(digits) - 1, Len(digits)))

getCurrentSeasonFromNovember(d) ==
    IF d.month > 10 THEN SeasonString(d.year, d.year + 1)
    ELSE SeasonString(d.year - 1, d.year)

getCurrentSeason(d) ==
    IF d.month >= 10 THEN SeasonString(d.year, d.year + 1)
    ELSE SeasonString(d.year - 1, d.year)

getPreviousSeason(d) ==
    IF d.month >= 10 THEN SeasonString(d.year - 1, d.year)
    ELSE SeasonString(d.year - 2, d.year - 1)

NoSeason == ""

Dates == {[year |-> 2025, month |-> 9], [year |-> 2025, month |-> 10]}

-----------------------------------------------------------------------------
(* Upstream responses *)

\* what an awaited nbaFetch can bring: a network-level exception, or a response
\* with a status and a body that parses as JSON or does not
Throw == [kind |-> "throw", status |-> 0, json |-> FALSE, hasResultSets |-> FALSE, resultSets |-> <<>>]
Http(status, json, has, rs) ==
    [kind |-> "http", status |-> status, json |-> json, hasResultSets |-> has, resultSets |-> rs]
NotOk(status) == Http(status, FALSE, FALSE, <<>>)
InvalidJson == Http(200, FALSE, FALSE, <<>>)
NoResultSets == Http(200, TRUE, FALSE, <<>>)
Json(rs) == Http(200, TRUE, TRUE, rs)
NoResponse == [kind |-> "none", status |-> 0, json |-> FALSE, hasResultSets |-> FALSE, resultSets |-> <<>>]

\* response.ok
ok(r) == r.kind = "http" /\ r.status >= 200 /\ r.status <= 299

ResultSet(name, hasHeaders, headers, hasRowSet, rowSet) ==
    [name |-> name, hasHeaders |-> hasHeaders, headers |-> headers,
     hasRowSet |-> hasRowSet, rowSet |-> rowSet]


PtsCells == {NumCell(2750), NumCell(0), StrCell("n/a")}
FgaCells == {NumCell(2000), NumCell(4), NumCell(0), NullCell, StrCell("20"), StrCell("n/a")}

DashboardHeaders ==
    {<<"PTS", "FGA">>, <<"GP", "FGA", "PTS">>, <<"GP", "PTS">>, <<"FGA">>}

\* a row laid out by its headers
DashboardRow(headers, p, f) ==
    [i \in 1..Len(headers) |->
        IF headers[i] = "PTS" THEN p ELSE IF headers[i] = "FGA" THEN f ELSE NumCell(8200)]

OtherResultSet == ResultSet("ByYearPlayerDashboard", TRUE, <<"GP">>, TRUE, <<<<NumCell(8200)>>>>)

DashboardResultSets ==
    {ResultSet("OverallPlayerDashboard", TRUE, h, TRUE, <<DashboardRow(h, p, f)>>) :
        h \in DashboardHeaders, p \in PtsCells, f \in FgaCells}
    \cup {ResultSet("OverallPlayerDashboard", TRUE, <<"PTS", "FGA">>, TRUE, <<<<NumCell(2750)>>>>),
          ResultSet("OverallPlayerDashboard", TRUE, <<"PTS", "FGA">>, TRUE, <<>>),
          ResultSet("OverallPlayerDashboard", TRUE, <<"PTS", "FGA">>, FALSE, <<>>),
          ResultSet("OverallPlayerDashboard", FALSE, <<>>, TRUE, <<<<NumCell(2750), NumCell(2000)>>>>)}

DashboardResponses ==
    {Throw, NotOk(403), NotOk(500), InvalidJson, NoResultSets, Json(<<>>), Json(<<OtherResultSet>>)}
    \cup {Json(<<d>>) : d \in DashboardResultSets}
    \cup {Json(<<OtherResultSet, d>>) :
            d \in {x \in DashboardResultSets : x.headers = <<"PTS", "FGA">>}}


PlayerInfoResultSets ==
    {ResultSet("CommonPlayerInfo", TRUE, <<"PERSON_ID", "FIRST_NAME", "LAST_NAME">>, TRUE,
               <<<<NumCell(254400), StrCell("LeBron"), StrCell("James")>>>>),
     ResultSet("CommonPlayerInfo", TRUE, <<"PERSON_ID", "FIRST_NAME", "LAST_NAME">>, TRUE,
               <<<<NumCell(254400), NullCell, StrCell("James")>>>>),
     ResultSet("CommonPlayerInfo", TRUE, <<"PERSON_ID", "FIRST_NAME", "LAST_NAME">>, TRUE,
               <<<<NumCell(254400), StrCell("LeBron")>>>>),
     ResultSet("CommonPlayerInfo", TRUE, <<"PERSON_ID", "FIRST_NAME">>, TRUE,
               <<<<NumCell(254400), StrCell("LeBron")>>>>),
     ResultSet("CommonPlayerInfo", TRUE, <<"PERSON_ID", "LAST_NAME">>, TRUE,
               <<<<NumCell(254400), StrCell("James")>>>>),
     ResultSet("CommonPlayerInfo", TRUE, <<"PERSON_ID", "FIRST_NAME", "LAST_NAME">>, TRUE, <<>>),
     ResultSet("CommonPlayerInfo", TRUE, <<"PERSON_ID", "FIRST_NAME", "LAST_NAME">>, FALSE, <<>>),
     ResultSet("CommonPlayerInfo", FALSE, <<>>, TRUE,
               <<<<NumCell(254400), StrCell("LeBron"), StrCell("James")>>>>)}

PlayerInfoResponses ==
    {Throw, NotOk(403), NotOk(500), InvalidJson, NoResultSets, Json(<<>>)}
    \cup {Json(<<p>>) : p \in PlayerInfoResultSets}

-----------------------------------------------------------------------------
(* Stats client: fetchPlayerSeasonAverages and tryPreviousSeason *)

\* the fetch call nbaFetch makes for a stats.nba.com url
nbaFetch(url, proxy) ==
    IF proxy
    THEN [to |-> "proxy", url |-> url, headers |-> "Accept"]
    ELSE [to |-> "direct", url |-> url, headers |-> "NBA_HEADERS"]

DashboardUrl(season, playerId) ==
    [endpoint |-> "playerdashboardbygeneralsplits", Season |-> season, PlayerID |-> playerId]

PlayerInfoUrl(playerId) ==
    [endpoint |-> "commonplayerinfo", Season |-> NoSeason, PlayerID |-> playerId]

\* resultSets.find((rs) => rs.name === "OverallPlayerDashboard"): <<>> or <<the first one>>
FindSeasonTotals(resultSets) ==
    LET hits == {i \in 1..Len(resultSets) : resultSets[i].name = "OverallPlayerDashboard"}
    IN  IF hits = {} THEN <<>>
        ELSE <<resultSets[CHOOSE i \in hits : \A j \in hits : i <= j]>>

Outcome(tag, p, f) == [tag |-> tag, pts |-> p, fga |-> f]

InvalidStatsUnlessNaN(p, f) == isNaN(p) \/ isNaN(f)

\* isNaN(pts) || isNaN(fga) || fga === 0
InvalidStats(p, f) == isNaN(p) \/ isNaN(f) \/ (isFinite(f) /\ f.v = 0)

\* the checks both dashboard readers make on the OverallPlayerDashboard result set
ReadSeasonTotals(seasonTotals) ==
    LET row == seasonTotals.rowSet[1]
        headers == seasonTotals.headers
        ptsIndex == indexOf(headers, "PTS")
        fgaIndex == indexOf(headers, "FGA")
        p == ToNumber(At(row, ptsIndex))
        f == ToNumber(At(row, fgaIndex))
    IN  IF ~seasonTotals.hasHeaders THEN Outcome("exception", NaN, NaN)
        ELSE IF ptsIndex = -1 \/ fgaIndex = -1 THEN Outcome("missingColumn", NaN, NaN)
        ELSE IF InvalidStats(p, f) THEN Outcome("invalid", p, f)
        ELSE Outcome("ok", p, f)

\* fetchPlayerSeasonAverages, from the awaited dashboard response to the identity lookup
CurrentDashboardOutcome(r) ==
    IF r.kind = "throw" THEN Outcome("exception", NaN, NaN)
    ELSE IF ~ok(r) THEN Outcome("notOk", NaN, NaN)
    ELSE IF ~r.json THEN Outcome("exception", NaN, NaN)
    ELSE IF ~r.hasResultSets \/ Len(r.resultSets) = 0 THEN Outcome("noResultSets", NaN, NaN)
    ELSE LET found == FindSeasonTotals(r.resultSets) IN
         IF found = <<>> \/ ~found[1].hasRowSet \/ Len(found[1].rowSet) = 0
         THEN Outcome("noDashboard", NaN, NaN)
         ELSE ReadSeasonTotals(found[1])

FallsBackOnMissingColumn(tag) == tag \in {"noResultSets", "noDashboard", "missingColumn"}

FallsBackOnlyWithoutResultSets(tag) == tag = "noResultSets"

\* the outcomes on which fetchPlayerSeasonAverages returns await tryPreviousSeason(playerId)
FallsBack(tag) == tag \in {"noResultSets", "noDashboard"}

\* tryPreviousSeason, from the awaited dashboard response to the identity lookup
PreviousDashboardOutcome(r) ==
    IF r.kind = "throw" THEN Outcome("exception", NaN, NaN)
    ELSE IF ~ok(r) THEN Outcome("notOk", NaN, NaN)
    ELSE IF ~r.json THEN Outcome("exception", NaN, NaN)
    ELSE LET found == IF r.hasResultSets THEN FindSeasonTotals(r.resultSets) ELSE <<>> IN
         IF found = <<>> \/ ~found[1].hasRowSet \/ Len(found[1].rowSet) = 0
         THEN Outcome("noDashboard", NaN, NaN)
         ELSE ReadSeasonTotals(found[1])

Player(id, first, last) == [id |-> id, first_name |-> first, last_name |-> last]

\* String(cell || "") of a name cell
NameString(c) ==
    CASE c.t = "str" -> c.s
      [] c.t = "null" -> ""
      [] c.t = "undefined" -> ""

\* the identity lookup of both readers: the player built from the awaited response,
\* or an exception that leaves the function through its catch
PlayerInfoOutcome(r, playerId) ==
    LET default == Player(playerId, "", "")
        first == r.resultSets[1]
        playerRow == first.rowSet[1]
        firstNameIndex == indexOf(first.headers, "FIRST_NAME")
        lastNameIndex == indexOf(first.headers, "LAST_NAME")
    IN  IF r.kind = "throw" THEN [tag |-> "exception", player |-> default]
        ELSE IF ~ok(r) THEN [tag |-> "player", player |-> default]
        ELSE IF ~r.json THEN [tag |-> "exception", player |-> default]
        ELSE IF ~(r.hasResultSets /\ Len(r.resultSets) > 0) THEN [tag |-> "player", player |-> default]
        ELSE IF ~first.hasRowSet THEN [tag |-> "exception", player |-> default]
        ELSE IF ~(Len(first.rowSet) > 0) THEN [tag |-> "player", player |-> default]
        ELSE IF ~first.hasHeaders THEN [tag |-> "exception", player |-> default]
        ELSE IF firstNameIndex # -1 /\ lastNameIndex # -1
             THEN [tag |-> "player",
                   player |-> Player(playerId, NameString(At(playerRow, firstNameIndex)),
                                     NameString(At(playerRow, lastNameIndex)))]
        ELSE [tag |-> "player", player |-> default]

\* PlayerStats | null
NullStats == [tag |-> "null"]
PlayerStats(player, p, f) == [tag |-> "stats", player |-> player, pts |-> p, fga |-> f]
Pending == [tag |-> "pending"]

\* { player, pts: Number(pts.toFixed(1)), fga: Number(fga.toFixed(1)) }
BuildStats(player, p, f) == PlayerStats(player, toFixed1(p), toFixed1(f))

-----------------------------------------------------------------------------
(* Stats client: searchPlayers *)

UpperCase == "ABCDEFGHIJKLMNOPQRSTUVWXYZ"
LowerCase == "abcdefghijklmnopqrstuvwxyz"

toLowerCaseChar(c) ==
    IF \E i \in 1..Len(UpperCase) : CharAt(UpperCase, i) = c
    THEN CharAt(LowerCase, CHOOSE i \in 1..Len(UpperCase) : CharAt(UpperCase, i) = c)
    ELSE c

\* String.prototype.toLowerCase
RECURSIVE toLowerCase(_)
toLowerCase(s) ==
    IF s = "" THEN "" ELSE toLowerCaseChar(Head(s)) \o toLowerCase(Tail(s))

\* the 1-based position of the first occurrence of sep in s, 0 when there is none
FirstOccurrence(s, sep) ==
    LET at == {i \in 1..(Len(s) - Len(sep) + 1) : SubSeq(s, i, i + Len(sep) - 1) = sep}
    IN  IF at = {} THEN 0 ELSE CHOOSE i \in at : \A j \in at : i <= j

\* String.prototype.includes
includes(s, q) == Len(q) = 0 \/ FirstOccurrence(s, q) # 0

\* String.prototype.split with a non-empty separator
RECURSIVE split(_, _)
split(s, sep) ==
    LET i == FirstOccurrence(s, sep)
    IN  IF i = 0 THEN <<s>>
        ELSE <<SubSeq(s, 1, i - 1)>> \o split(SubSeq(s, i + Len(sep), Len(s)), sep)

some(parts, q) == \E i \in 1..Len(parts) : includes(parts[i], q)

\* value || "" of a cell holds a string the code can call string methods on
Falsy(c) ==
    \/ c.t \in {"null", "undefined"}
    \/ c.t = "str" /\ c.s = ""
    \/ c.t = "num" /\ c.n = 0

SearchPlayer(id, first, last, display) ==
    [id |-> id, first_name |-> first, last_name |-> last, display_name |-> display]

NoPlayer == SearchPlayer(NullCell, "", "", NullCell)

\* nameParts[i] || "" for a 0-based i
NamePart(parts, i) == IF i < Len(parts) THEN parts[i + 1] ELSE ""

\* the map callback of searchPlayers on one row: the row is skipped (null), mapped to
\* a Player, or a TypeError is thrown
MapRow(row, queryLower) ==
    LET pid == At(row, 0)
        displayLastCommaFirst == At(row, 1)
        displayFirstLast == At(row, 2)
        rosterStatus == At(row, 3)
        gamesPlayedFlag == At(row, 14)
        isActive == \/ rosterStatus = NumCell(100)
                    \/ gamesPlayedFlag = StrCell("Y")
        lastCommaFirst == IF Falsy(displayLastCommaFirst) THEN ""
                          ELSE toLowerCase(displayLastCommaFirst.s)
        firstLast == IF Falsy(displayFirstLast) THEN ""
                     ELSE toLowerCase(displayFirstLast.s)
        matches == \/ includes(firstLast, queryLower)
                   \/ includes(lastCommaFirst, queryLower)
                   \/ some(split(firstLast, " "), queryLower)
                   \/ some(split(lastCommaFirst, ", "), queryLower)
        raw == split(displayLastCommaFirst.s, ",")
        nameParts == [i \in 1..Len(raw) |-> Trim(raw[i])]
    IN  IF ~isActive THEN [tag |-> "skip", player |-> NoPlayer]
        ELSE IF ~Falsy(displayLastCommaFirst) /\ displayLastCommaFirst.t # "str"
             THEN [tag |-> "throw", player |-> NoPlayer]
        ELSE IF ~Falsy(displayFirstLast) /\ displayFirstLast.t # "str"
             THEN [tag |-> "throw", player |-> NoPlayer]
        ELSE IF ~matches THEN [tag |-> "skip", player |-> NoPlayer]
        ELSE IF displayLastCommaFirst.t # "str" THEN [tag |-> "throw", player |-> NoPlayer]
        ELSE [tag |-> "player",
              player |-> SearchPlayer(pid, NamePart(nameParts, 1), NamePart(nameParts, 0),
                                      IF Falsy(displayFirstLast) THEN displayLastCommaFirst
                                      ELSE displayFirstLast)]

\* rowSet.map(...).filter((p) => p !== null)
RECURSIVE MapFilter(_, _)
MapFilter(rowSet, queryLower) ==
    IF rowSet = <<>> THEN <<>>
    ELSE LET m == MapRow(Head(rowSet), queryLower)
         IN  (IF m.tag = "player" THEN <<m.player>> ELSE <<>>) \o MapFilter(Tail(rowSet), queryLower)

Throws(rowSet, queryLower) ==
    \E i \in 1..Len(rowSet) : MapRow(rowSet[i], queryLower).tag = "throw"

PerPage == 25

\* .slice(0, 25)
slice25(list) == SubSeq(list, 1, IF Len(list) < PerPage THEN Len(list) ELSE PerPage)

\* { data, error? }
NoError == [text |-> "", status |-> 0]
Result(data) == [tag |-> "return", data |-> data, hasError |-> FALSE, error |-> NoError]
ResultError(data, msg) == [tag |-> "return", data |-> data, hasError |-> TRUE, error |-> msg]
Thrown == [tag |-> "throw", data |-> <<>>, hasError |-> FALSE, error |-> NoError]
NoReturn == [tag |-> "pending", data |-> <<>>, hasError |-> FALSE, error |-> NoError]

\* the message searchPlayers picks for a non-success status
ErrorMessage(status) ==
    IF status = 403
    THEN [text |-> "NBA API blocked this request (proxy or origin may be blocked). Try Render or another host for the proxy.",
          status |-> 0]
    ELSE IF status = 502
    THEN [text |-> "Proxy could not reach NBA API. Check proxy logs.", status |-> 0]
    ELSE [text |-> "Search failed: ", status |-> status]

SearchCatchRethrows == Thrown

\* what the catch of searchPlayers turns an exception into
SearchCatch == Result(<<>>)

\* searchPlayers from the awaited commonallplayers response to its return
SearchOutcome(query, r) ==
    LET players == r.resultSets[1]
        queryLower == Trim(toLowerCase(query))
    IN  IF r.kind = "throw" THEN SearchCatch
        ELSE IF ~ok(r) THEN ResultError(<<>>, ErrorMessage(r.status))
        ELSE IF ~r.json THEN SearchCatch
        ELSE IF ~r.hasResultSets \/ Len(r.resultSets) = 0 THEN Result(<<>>)
        ELSE IF ~players.hasRowSet \/ Len(players.rowSet) = 0 THEN Result(<<>>)
        ELSE IF Throws(players.rowSet, queryLower) THEN SearchCatch
        ELSE Result(slice25(MapFilter(players.rowSet, queryLower)))

CommonAllPlayersUrl(season) ==
    [endpoint |-> "commonallplayers", Season |-> season, PlayerID |-> NaN]

-----------------------------------------------------------------------------
(* Stats endpoint: GET /api/players/[id]/stats *)


Ids == {"2544", " 7", "abc", "7a", InfinityLiteral}

NoHttp == [status |-> 0, body |-> [none |-> TRUE]]

\* const playerId = Number(id)
playerId == StringToNumber(idParam)

EnvInit ==
    /\ today \in Dates
    /\ proxyEnv \in BOOLEAN

StatsQuiet ==
    /\ statsPc = "idle"
    /\ idParam = ""
    /\ outbound = <<>>
    /\ curResponse = NoResponse
    /\ prevResponse = NoResponse
    /\ playerResponse = NoResponse
    /\ pts = NaN
    /\ fga = NaN
    /\ clientCalls = 0
    /\ stats = Pending
    /\ statsHttp = NoHttp

StatsRouteResponseWithoutNotFound(s) == [status |-> 200, body |-> [data |-> s]]

\* the route's response to what fetchPlayerSeasonAverages returned
StatsRouteResponse(s) ==
    IF s = NullStats
    THEN [status |-> 404, body |-> [error |-> "Player stats not found"]]
    ELSE [status |-> 200, body |-> [data |-> s]]

\* fetchPlayerSeasonAverages returns s and the route responds
StatsReturn(s) ==
    /\ stats' = s
    /\ statsHttp' = StatsRouteResponse(s)
    /\ statsPc' = "done"

\* a request arrives: the route parses the id and, for a finite one, calls
\* fetchPlayerSeasonAverages, which issues the current-season dashboard call
StatsGET(id) ==
    /\ statsPc \in {"idle", "done"}
    /\ idParam' = id
    /\ curResponse' = NoResponse
    /\ prevResponse' = NoResponse
    /\ playerResponse' = NoResponse
    /\ pts' = NaN
    /\ fga' = NaN
    /\ stats' = Pending
    /\ IF ~isFinite(StringToNumber(id))
       THEN /\ statsHttp' = [status |-> 400, body |-> [error |-> "Invalid player ID"]]
            /\ statsPc' = "done"
            /\ clientCalls' = 0
            /\ outbound' = <<>>
       ELSE /\ statsHttp' = NoHttp
            /\ statsPc' = "awaitCur"
            /\ clientCalls' = 1
            /\ outbound' = <<nbaFetch(DashboardUrl(getCurrentSeason(today), StringToNumber(id)),
                                       proxyEnv)>>
    /\ UNCHANGED <<envVars, proxyVars, searchVars, uiVars>>

\* the current-season dashboard response arrives
CurrentDashboardResponse(r) ==
    /\ statsPc = "awaitCur"
    /\ curResponse' = r
    /\ LET o == CurrentDashboardOutcome(r) IN
       IF FallsBack(o.tag)
       THEN /\ outbound' = Append(outbound,
                                  nbaFetch(DashboardUrl(getPreviousSeason(today), playerId), proxyEnv))
            /\ statsPc' = "awaitPrev"
            /\ UNCHANGED <<pts, fga, stats, statsHttp>>
       ELSE IF o.tag = "ok"
       THEN /\ pts' = o.pts
            /\ fga' = o.fga
            /\ outbound' = Append(outbound, nbaFetch(PlayerInfoUrl(playerId), proxyEnv))
            /\ statsPc' = "awaitInfo"
            /\ UNCHANGED <<stats, statsHttp>>
       ELSE /\ StatsReturn(NullStats)
            /\ UNCHANGED <<pts, fga, outbound>>
    /\ UNCHANGED <<envVars, proxyVars, idParam, prevResponse, playerResponse, clientCalls, searchVars, uiVars>>

\* the previous-season dashboard response arrives in tryPreviousSeason
PreviousDashboardResponse(r) ==
    /\ statsPc = "awaitPrev"
    /\ prevResponse' = r
    /\ LET o == PreviousDashboardOutcome(r) IN
       IF o.tag = "ok"
       THEN /\ pts' = o.pts
            /\ fga' = o.fga
            /\ outbound' = Append(outbound, nbaFetch(PlayerInfoUrl(playerId), proxyEnv))
            /\ statsPc' = "awaitInfo"
            /\ UNCHANGED <<stats, statsHttp>>
       ELSE /\ StatsReturn(NullStats)
            /\ UNCHANGED <<pts, fga, outbound>>
    /\ UNCHANGED <<envVars, proxyVars, idParam, curResponse, playerResponse, clientCalls, searchVars, uiVars>>

\* the commonplayerinfo response arrives (in either reader)
PlayerInfoResponse(r) ==
    /\ statsPc = "awaitInfo"
    /\ playerResponse' = r
    /\ LET o == PlayerInfoOutcome(r, playerId) IN
       IF o.tag = "exception"
       THEN StatsReturn(NullStats)
       ELSE StatsReturn(BuildStats(o.player, pts, fga))
    /\ UNCHANGED <<envVars, proxyVars, idParam, outbound, curResponse, prevResponse, pts, fga, clientCalls, searchVars, uiVars>>

StatsNext ==
    \/ \E id \in Ids : StatsGET(id)
    \/ \E r \in DashboardResponses : CurrentDashboardResponse(r)
    \/ \E r \in DashboardResponses : PreviousDashboardResponse(r)
    \/ \E r \in PlayerInfoResponses : PlayerInfoResponse(r)

-----------------------------------------------------------------------------
(* Search endpoint: GET /api/players/search *)


\* a commonallplayers row: PERSON_ID, DISPLAY_LAST_COMMA_FIRST, DISPLAY_FIRST_LAST,
\* ROSTERSTATUS, ten columns the code does not read, GAMES_PLAYED_FLAG
PlayerRow(id, lastCommaFirst, firstLast, roster, flag) ==
    <<id, lastCommaFirst, firstLast, roster>> \o [i \in 1..10 |-> NullCell] \o <<flag>>

PlayerRows ==
    {PlayerRow(NumCell(254400), StrCell("James, LeBron"), StrCell("LeBron James"), NumCell(100), StrCell("Y")),
     PlayerRow(NumCell(240300), StrCell("Nene"), StrCell("Nene"), NumCell(0), StrCell("Y")),
     PlayerRow(NumCell(7700), StrCell("James, LeBron"), StrCell("LeBron James"), NumCell(0), StrCell("N")),
     PlayerRow(NumCell(100), NullCell, StrCell("LeBron James"), NumCell(100), StrCell("N")),
     PlayerRow(NumCell(200), NumCell(500), StrCell("Nene"), NumCell(100), StrCell("N")),
     <<NumCell(300)>>}

MaxRows == 2

RowSets == UNION {[1..n -> PlayerRows] : n \in 0..MaxRows}

PlayersResponses ==
    {Throw, NotOk(403), NotOk(502), NotOk(500), NotOk(404), InvalidJson, NoResultSets, Json(<<>>),
     Json(<<ResultSet("CommonAllPlayers", TRUE, <<"PERSON_ID">>, FALSE, <<>>)>>)}
    \cup {Json(<<ResultSet("CommonAllPlayers", TRUE, <<"PERSON_ID">>, TRUE, rows)>>) : rows \in RowSets}
    \cup {LET row == PlayerRow(NumCell(254400), StrCell("James, LeBron"),
                                StrCell("LeBron James"), NumCell(100), StrCell("Y"))
          IN  Json(<<ResultSet("CommonAllPlayers", TRUE, <<"PERSON_ID">>, TRUE,
                               [i \in 1..(PerPage + 1) |-> row])>>)}


Param(value) == [isNull |-> FALSE, value |-> value]
NullParam == [isNull |-> TRUE, value |-> ""]

QParams == {NullParam, Param(""), Param("  "), Param("bron"), Param(" JAMES"),
            Param("nen"), Param("zz")}

Meta(pages, count) ==
    [total_pages |-> pages, current_page |-> 1, next_page |-> NullCell,
     per_page |-> 25, total_count |-> count]

EmptyEnvelope == [status |-> 200, body |-> [data |-> <<>>, meta |-> Meta(0, 0)]]

SearchQuiet ==
    /\ searchPc = "idle"
    /\ qParam = NullParam
    /\ searchOutbound = <<>>
    /\ playersResponse = NoResponse
    /\ searchCalls = 0
    /\ searchReturn = NoReturn
    /\ searchHttp = NoHttp

NoQueryOnlyWhenMissing(q) == q.isNull

\* !query
NoQuery(q) == q.isNull \/ q.value = ""

\* result.error ? ... : ...
HasErrorString(res) == res.hasError /\ (res.error.text # "" \/ res.error.status # 0)

SearchRouteResponseAlwaysOk(res) ==
    [status |-> 200, body |-> [data |-> res.data, meta |-> Meta(1, Len(res.data))]]

\* the route's response to what the awaited searchPlayers(query) brought
SearchRouteResponse(res) ==
    IF res.tag = "throw" THEN EmptyEnvelope
    ELSE IF HasErrorString(res)
    THEN [status |-> 503,
          body |-> [data |-> res.data, meta |-> Meta(1, Len(res.data)), error |-> res.error]]
    ELSE [status |-> 200, body |-> [data |-> res.data, meta |-> Meta(1, Len(res.data))]]

\* searchPlayers returns (or throws) and the route responds
SearchReturn(res) ==
    /\ searchReturn' = res
    /\ searchHttp' = SearchRouteResponse(res)
    /\ searchPc' = "done"

\* a request arrives: the route reads q and, unless it is missing or empty, calls
\* searchPlayers, which returns at once on a blank query and otherwise issues the
\* commonallplayers call
SearchGET(q) ==
    /\ searchPc \in {"idle", "done"}
    /\ qParam' = q
    /\ playersResponse' = NoResponse
    /\ IF NoQuery(q)
       THEN /\ searchHttp' = EmptyEnvelope
            /\ searchPc' = "done"
            /\ searchCalls' = 0
            /\ searchReturn' = NoReturn
            /\ searchOutbound' = <<>>
       ELSE /\ searchCalls' = 1
            /\ IF Trim(q.value) = ""
               THEN /\ SearchReturn(Result(<<>>))
                    /\ searchOutbound' = <<>>
               ELSE /\ searchOutbound' =
                           <<nbaFetch(CommonAllPlayersUrl(getCurrentSeason(today)), proxyEnv)>>
                    /\ searchPc' = "awaitPlayers"
                    /\ searchReturn' = NoReturn
                    /\ searchHttp' = NoHttp
    /\ UNCHANGED <<envVars, proxyVars, statsVars, uiVars>>

\* the commonallplayers response arrives
PlayersResponse(r) ==
    /\ searchPc = "awaitPlayers"
    /\ playersResponse' = r
    /\ SearchReturn(SearchOutcome(qParam.value, r))
    /\ UNCHANGED <<envVars, proxyVars, statsVars, uiVars, qParam, searchOutbound, searchCalls>>

SearchNext ==
    \/ \E q \in QParams : SearchGET(q)
    \/ \E r \in PlayersResponses : PlayersResponse(r)

-----------------------------------------------------------------------------
(* Browser: the ShotsTo30Calculator component *)

\* null for searchMeta, selectedPlayer and result
Null == [null |-> TRUE]
\* null for error
NoErrorText == "null"


LeJ == Player(2544, "Le", "J")
Yi == Player(1006, "", "Yi")

\* `${player.first_name} ${player.last_name}`
FullName(player) == player.first_name \o " " \o player.last_name


\* what the user leaves in the input box with one change event
TypedQueries == {"", "a", " ab ", "abc", "abcd"}

MaxSearchInflight == 2
MaxStatsInflight == 1

\* the component's state, as one record
UI ==
    [searchQuery |-> searchQuery, searchResults |-> searchResults, searchMeta |-> searchMeta,
     searchLoading |-> searchLoading, selectedPlayer |-> selectedPlayer, result |-> result,
     loading |-> loading, error |-> error, timer |-> timer,
     searchInflight |-> searchInflight, statsInflight |-> statsInflight]

SetUI(u) ==
    /\ searchQuery' = u.searchQuery
    /\ searchResults' = u.searchResults
    /\ searchMeta' = u.searchMeta
    /\ searchLoading' = u.searchLoading
    /\ selectedPlayer' = u.selectedPlayer
    /\ result' = u.result
    /\ loading' = u.loading
    /\ error' = u.error
    /\ timer' = u.timer
    /\ searchInflight' = u.searchInflight
    /\ statsInflight' = u.statsInflight

NoTimer == [pending |-> FALSE, q |-> ""]
Timer(q) == [pending |-> TRUE, q |-> q]

\* a search request in flight: sent by the debounced callback or by the Enter handler;
\* cleaned is set once the effect run that sent it has been cleaned up
SearchRequest(kind, q, perPage) == [kind |-> kind, q |-> q, per_page |-> perPage, cleaned |-> FALSE]

\* the state after mount: the initial useState values, both effects run once
UIMounted ==
    /\ searchQuery = ""
    /\ searchResults = <<>>
    /\ searchMeta = Null
    /\ searchLoading = FALSE
    /\ selectedPlayer = Null
    /\ result = Null
    /\ loading = FALSE
    /\ error = NoErrorText
    /\ timer = NoTimer
    /\ searchInflight = <<>>
    /\ statsInflight = <<>>

MinSearchLength == 3

\* the length below which the search effect does not search
SearchableLength(q) == Len(Trim(q)) >= MinSearchLength

\* the cleanup of the search effect: clearTimeout(timeoutId)
SearchEffectCleanup(u) ==
    [u EXCEPT !.timer = NoTimer,
              !.searchInflight = [i \in 1..Len(u.searchInflight) |->
                  IF u.searchInflight[i].kind = "debounce"
                  THEN [u.searchInflight[i] EXCEPT !.cleaned = TRUE]
                  ELSE u.searchInflight[i]]]

\* the body of the search effect, up to setTimeout
SearchEffect(u) ==
    IF Trim(u.searchQuery) = ""
    THEN [u EXCEPT !.searchResults = <<>>, !.searchMeta = Null]
    ELSE IF ~SearchableLength(u.searchQuery)
    THEN [u EXCEPT !.searchResults = <<>>, !.searchMeta = Null, !.searchLoading = FALSE]
    ELSE [u EXCEPT !.searchLoading = TRUE, !.timer = Timer(u.searchQuery)]

\* the stats effect: clears the result, or sends the stats request
StatsEffect(u) ==
    IF u.selectedPlayer = Null
    THEN [u EXCEPT !.result = Null]
    ELSE [u EXCEPT !.loading = TRUE, !.error = NoErrorText,
                   !.statsInflight = Append(u.statsInflight, [player |-> u.selectedPlayer])]

\* the effects React runs after a render: each one whose dependency changed, in the
\* order of declaration; selected says that setSelectedPlayer was given another value
RunEffects(old, new, selected) ==
    LET afterSearch == IF new.searchQuery # old.searchQuery
                       THEN SearchEffect(SearchEffectCleanup(new))
                       ELSE new
    IN  IF selected THEN StatsEffect(afterSearch) ELSE afterSearch

handlePlayerSelect(u, player) ==
    [u EXCEPT !.selectedPlayer = player, !.searchQuery = FullName(player), !.searchResults = <<>>]

\* ---- responses of GET /api/players/search as the route produces them, of the hosting
\* platform (429), and a rejected fetch
Reject == [kind |-> "reject", status |-> 0, body |-> Null]
SearchOk(data) == [kind |-> "http", status |-> 200, body |-> [data |-> data, meta |-> Meta(1, Len(data))]]
SearchUnavailable ==
    [kind |-> "http", status |-> 503,
     body |-> [data |-> <<>>, meta |-> Meta(1, 0), error |-> ErrorMessage(403)]]
PlatformError(status) == [kind |-> "http", status |-> status, body |-> Null]

UISearchResponses ==
    {Reject, SearchOk(<<>>), SearchOk(<<LeJ>>), SearchOk(<<Yi, LeJ>>), SearchUnavailable,
     PlatformError(429)}

\* the debounced callback after its fetch settled: try / catch / finally
DebouncedSearchSettled(u, r) ==
    LET settled ==
            IF r.kind = "reject"
            THEN [u EXCEPT !.searchResults = <<>>, !.searchMeta = Null]
            ELSE IF ok(r)
            THEN [u EXCEPT !.searchResults = r.body.data, !.searchMeta = r.body.meta]
            ELSE IF r.status = 429
            THEN [u EXCEPT !.error = "Rate limit reached. Please wait a moment.",
                           !.searchResults = <<>>, !.searchMeta = Null]
            ELSE u
    IN  [settled EXCEPT !.searchLoading = FALSE]

\* the promise chain of the Enter search after its fetch settled: the state it sets
\* (then / catch, then finally) before React renders
EnterSearchSettled(u, r) ==
    LET settled ==
            IF r.kind = "reject" \/ ~ok(r)
            THEN [u EXCEPT !.error = "Failed to search for players. Please try again."]
            ELSE IF Len(r.body.data) > 0
            THEN handlePlayerSelect([u EXCEPT !.searchResults = r.body.data,
                                              !.searchMeta = r.body.meta],
                                    r.body.data[1])
            ELSE [u EXCEPT !.error = "No players found. Try a different search."]
    IN  [settled EXCEPT !.searchLoading = FALSE]

EnterSearchSelects(r) == r.kind = "http" /\ ok(r) /\ Len(r.body.data) > 0

\* ---- responses of GET /api/players/{id}/stats
StatsOk(player, p, f) ==
    [kind |-> "http", status |-> 200, body |-> [data |-> PlayerStats(player, Fin(p), Fin(f))]]
StatsError(status) == [kind |-> "http", status |-> status, body |-> Null]

UIStatsResponses(player) ==
    {Reject, StatsError(404),
     StatsOk(player, 2750, 2000), StatsOk(Player(player.id, "", ""), 2200, 1700),
     StatsOk(player, 0, 2000), StatsOk(player, 2750, 0)}

ShotsTo30Truncated(p, f) == Fin(10 * ((300 * f.v) \div p.v))

\* Number((30 / (pts / fga)).toFixed(1)) for positive pts and fga
ShotsTo30(p, f) == Fin(10 * ((600 * f.v + p.v) \div (2 * p.v)))

CalculationResult(st) ==
    [shots |-> ShotsTo30(st.pts, st.fga), playerName |-> FullName(st.player),
     pts |-> st.pts, fga |-> st.fga]

\* the promise chain of the stats effect after its fetch settled
StatsSettled(u, r) ==
    LET settled ==
            IF r.kind = "reject" \/ ~ok(r)
            THEN [u EXCEPT !.error = "Failed to load player data. Please try again.",
                           !.result = Null]
            ELSE IF r.body = Null
            THEN [u EXCEPT !.error = "No season data available for this player.",
                           !.result = Null]
            ELSE IF r.body.data.fga = Fin(0) \/ r.body.data.pts = Fin(0)
            THEN [u EXCEPT !.error = "Player has no field goal attempts or points this season.",
                           !.result = Null]
            ELSE [u EXCEPT !.result = CalculationResult(r.body.data)]
    IN  [settled EXCEPT !.loading = FALSE]

Remove(seq, i) == SubSeq(seq, 1, i - 1) \o SubSeq(seq, i + 1, Len(seq))

\* ---- the events

\* onChange of the input
ChangeQuery(q) ==
    /\ q # searchQuery
    /\ SetUI(RunEffects(UI, [UI EXCEPT !.searchQuery = q], FALSE))
    /\ UNCHANGED <<envVars, proxyVars, statsVars, searchVars>>

\* the 800 ms timeout fires: the callback sends the search request
DebounceFires ==
    /\ timer.pending
    /\ Len(searchInflight) < MaxSearchInflight
    /\ SetUI([UI EXCEPT !.timer = NoTimer,
                        !.searchInflight = Append(searchInflight,
                                                  SearchRequest("debounce", timer.q, 25))])
    /\ UNCHANGED <<envVars, proxyVars, statsVars, searchVars>>

\* the response to a debounced search request arrives
DebouncedSearchResponse(i, r) ==
    /\ i \in 1..Len(searchInflight)
    /\ searchInflight[i].kind = "debounce"
    /\ SetUI(DebouncedSearchSettled([UI EXCEPT !.searchInflight = Remove(searchInflight, i)], r))
    /\ UNCHANGED <<envVars, proxyVars, statsVars, searchVars>>

\* onClick of a row of the result list
ClickPlayer(i) ==
    /\ i \in 1..Len(searchResults)
    /\ Len(statsInflight) < MaxStatsInflight
    /\ SetUI(RunEffects(UI, handlePlayerSelect(UI, searchResults[i]), TRUE))
    /\ UNCHANGED <<envVars, proxyVars, statsVars, searchVars>>

\* handleKeyDown with Enter while results are listed
EnterSelectsFirst ==
    /\ Len(searchResults) > 0
    /\ Len(statsInflight) < MaxStatsInflight
    /\ SetUI(RunEffects(UI, handlePlayerSelect(UI, searchResults[1]), TRUE))
    /\ UNCHANGED <<envVars, proxyVars, statsVars, searchVars>>

\* the query for which handleKeyDown sends its search
EnterSearches(q) == Trim(q) # ""

\* handleKeyDown with Enter while no results are listed
EnterSearch ==
    /\ Len(searchResults) = 0
    /\ EnterSearches(searchQuery)
    /\ Len(searchInflight) < MaxSearchInflight
    /\ SetUI([UI EXCEPT !.searchLoading = TRUE,
                        !.searchInflight = Append(searchInflight,
                                                  SearchRequest("enter", searchQuery, 50))])
    /\ UNCHANGED <<envVars, proxyVars, statsVars, searchVars>>

\* the response to an Enter search request arrives
EnterSearchResponse(i, r) ==
    /\ i \in 1..Len(searchInflight)
    /\ searchInflight[i].kind = "enter"
    /\ EnterSearchSelects(r) => Len(statsInflight) < MaxStatsInflight
    /\ SetUI(RunEffects(UI,
                        EnterSearchSettled([UI EXCEPT !.searchInflight = Remove(searchInflight, i)], r),
                        EnterSearchSelects(r)))
    /\ UNCHANGED <<envVars, proxyVars, statsVars, searchVars>>

\* the response to a stats request arrives
StatsResponse(i, r) ==
    /\ i \in 1..Len(statsInflight)
    /\ r \in UIStatsResponses(statsInflight[i].player)
    /\ SetUI(StatsSettled([UI EXCEPT !.statsInflight = Remove(statsInflight, i)], r))
    /\ UNCHANGED <<envVars, proxyVars, statsVars, searchVars>>

\* onClick of "Try another player"
TryAnotherPlayer ==
    /\ error # NoErrorText
    /\ selectedPlayer # Null
    /\ SetUI(RunEffects(UI,
                        [UI EXCEPT !.error = NoErrorText, !.selectedPlayer = Null,
                                   !.searchQuery = ""],
                        TRUE))
    /\ UNCHANGED <<envVars, proxyVars, statsVars, searchVars>>

UINext ==
    \/ \E q \in TypedQueries : ChangeQuery(q)
    \/ DebounceFires
    \/ \E i \in 1..MaxSearchInflight, r \in UISearchResponses : DebouncedSearchResponse(i, r)
    \/ \E i \in 1..Len(searchResults) : ClickPlayer(i)
    \/ EnterSelectsFirst
    \/ EnterSearch
    \/ \E i \in 1..MaxSearchInflight, r \in UISearchResponses : EnterSearchResponse(i, r)
    \/ \E i \in 1..MaxStatsInflight, r \in UIStatsResponses(LeJ) \cup UIStatsResponses(Yi) :
           StatsResponse(i, r)
    \/ TryAnotherPlayer

-----------------------------------------------------------------------------
(* Proxy server *)

\* String.prototype.startsWith
startsWith(s, prefix) == Len(s) >= Len(prefix) /\ SubSeq(s, 1, Len(prefix)) = prefix

\* new URL(req.url, "http://localhost:PORT") throws: a path that opens with "//"
\* names an authority, and nothing but slashes leaves the host empty
InvalidRequestTarget(path) ==
    /\ startsWith(path, "//")
    /\ \A i \in 1..Len(path) : CharAt(path, i) \in {"/", "\\"}

ProxyRequests ==
    [method : {"GET", "POST", "HEAD"},
     path : {"/", "/proxy", "//", "//x"},
     url : {NullParam, Param(""), Param("https://stats.nba.com/stats/commonallplayers"),
            Param("http://stats.nba.com/stats/commonallplayers"),
            Param("https://stats.nba.com.example.org/"),
            Param("https://example.org/?https://stats.nba.com/")}]

\* what the upstream fetch brings: fetch rejects, response.text() rejects, or a
\* response with a status and possibly a Content-Type header
ProxyUpstreamResponses ==
    {[kind |-> "fetchThrows", status |-> 0, contentType |-> NullParam],
     [kind |-> "textThrows", status |-> 200, contentType |-> NullParam]}
    \cup [kind : {"http"}, status : {200, 403, 404, 500},
          contentType : {NullParam, Param("application/json"), Param("text/html")}]

NoProxyRequest == [method |-> "", path |-> "", url |-> NullParam]
NoProxyResponse == [status |-> 0, contentType |-> NullParam, body |-> "none"]

ProxyQuiet ==
    /\ proxyPc = "idle"
    /\ proxyReq = NoProxyRequest
    /\ proxyFetches = <<>>
    /\ proxyRes = NoProxyResponse

\* the response the handler writes once the upstream fetch has settled
ProxyMirror(r) ==
    IF r.kind = "http"
    THEN [status |-> r.status,
          contentType |-> IF NoQuery(r.contentType) THEN Param("application/json")
                          ELSE r.contentType,
          body |-> "upstream body"]
    ELSE [status |-> 502, contentType |-> Param("application/json"),
          body |-> "Proxy fetch failed"]

\* a request arrives and the handler runs up to its first await or its end; an
\* exception of new URL leaves the async handler outside any try: the request is
\* never answered, and the rejection either ends the process or is only reported
ProxyRequest(req) ==
    /\ proxyPc \in {"idle", "done", "hung"}
    /\ proxyReq' = req
    /\ IF req.method # "GET"
       THEN /\ proxyRes' = [status |-> 405, contentType |-> NullParam, body |-> ""]
            /\ proxyFetches' = <<>>
            /\ proxyPc' = "done"
       ELSE IF InvalidRequestTarget(req.path)
       THEN /\ proxyRes' = NoProxyResponse
            /\ proxyFetches' = <<>>
            /\ proxyPc' \in {"hung", "crashed"}
       ELSE IF NoQuery(req.url) \/ ~startsWith(req.url.value, "https://stats.nba.com/")
       THEN /\ proxyRes' = [status |-> 400, contentType |-> Param("application/json"),
                            body |-> "Missing or invalid url query (must be stats.nba.com)"]
            /\ proxyFetches' = <<>>
            /\ proxyPc' = "done"
       ELSE /\ proxyRes' = NoProxyResponse
            /\ proxyFetches' = <<[url |-> req.url.value, headers |-> "NBA_HEADERS"]>>
            /\ proxyPc' = "awaitUpstream"
    /\ UNCHANGED <<envVars, statsVars, searchVars, uiVars>>

\* the upstream fetch settles and the handler answers
ProxyUpstreamResponse(r) ==
    /\ proxyPc = "awaitUpstream"
    /\ proxyRes' = ProxyMirror(r)
    /\ proxyPc' = "done"
    /\ UNCHANGED <<envVars, statsVars, searchVars, uiVars, proxyReq, proxyFetches>>

ProxyNext ==
    \/ \E req \in ProxyRequests : ProxyRequest(req)
    \/ \E r \in ProxyUpstreamResponses : ProxyUpstreamResponse(r)

-----------------------------------------------------------------------------
(* Specifications: one per component, the other components at rest *)

StatsInit == EnvInit /\ StatsQuiet /\ SearchQuiet /\ UIMounted /\ ProxyQuiet

SpecStats == StatsInit /\ [][StatsNext]_vars

SearchInit == EnvInit /\ StatsQuiet /\ SearchQuiet /\ UIMounted /\ ProxyQuiet

SpecSearch == SearchInit /\ [][SearchNext]_vars

UIInit ==
    /\ today = [year |-> 2025, month |-> 10]
    /\ proxyEnv = FALSE
    /\ StatsQuiet
    /\ SearchQuiet
    /\ UIMounted
    /\ ProxyQuiet

SpecUI == UIInit /\ [][UINext]_vars

ProxyInit == EnvInit /\ StatsQuiet /\ SearchQuiet /\ UIMounted /\ ProxyQuiet

SpecProxy == ProxyInit /\ [][ProxyNext]_vars

\* the stats client on every month of a year before and a year after the turn of
\* the century
SeasonDates == [year : {1999, 2000}, month : 1..12]

SeasonsInit ==
    /\ today \in SeasonDates
    /\ proxyEnv = FALSE
    /\ StatsQuiet
    /\ SearchQuiet
    /\ UIMounted
    /\ ProxyQuiet

SpecSeasons == SeasonsInit /\ [][StatsNext]_vars

-----------------------------------------------------------------------------
(* Properties of the stats client and the stats endpoint (under SpecStats) *)

IsDashboardCall(c) == c.url.endpoint = "playerdashboardbygeneralsplits"
DashboardCalls == {i \in 1..Len(outbound) : IsDashboardCall(outbound[i])}
PreviousSeasonCalls ==
    {i \in DashboardCalls : outbound[i].url.Season = getPreviousSeason(today)}
PlayerInfoCalls == {i \in 1..Len(outbound) : outbound[i].url.endpoint = "commonplayerinfo"}

Parsed(r) == r.kind = "http" /\ r.status \in 200..299 /\ r.json

NoOverallDashboard(r) ==
    \/ ~r.hasResultSets
    \/ \A i \in 1..Len(r.resultSets) : r.resultSets[i].name # "OverallPlayerDashboard"

\* the first OverallPlayerDashboard result set of a response that has one
Overall(r) ==
    r.resultSets[CHOOSE i \in 1..Len(r.resultSets) :
                    /\ r.resultSets[i].name = "OverallPlayerDashboard"
                    /\ \A j \in 1..(i - 1) : r.resultSets[j].name # "OverallPlayerDashboard"]

\* the season's data is absent: no result sets, no OverallPlayerDashboard, no rows
SeasonDataAbsent(r) ==
    /\ Parsed(r)
    /\ \/ NoOverallDashboard(r)
       \/ ~Overall(r).hasRowSet
       \/ Overall(r).rowSet = <<>>

HasColumn(rs, h) == \E i \in 1..Len(rs.headers) : rs.headers[i] = h
Column(rs, h) == rs.rowSet[1][CHOOSE i \in 1..Len(rs.headers) : rs.headers[i] = h]

NumericCells == {NumCell(2750), NumCell(2000), NumCell(4), NumCell(0), NullCell, StrCell("20")}

\* a row is there, but a required statistic is not: a column is missing or a value
\* is not numeric
StatisticMissing(r) ==
    /\ Parsed(r)
    /\ ~SeasonDataAbsent(r)
    /\ Overall(r).hasHeaders
    /\ \/ ~HasColumn(Overall(r), "PTS")
       \/ ~HasColumn(Overall(r), "FGA")
       \/ (Len(Overall(r).rowSet[1]) = Len(Overall(r).headers)
           /\ (Column(Overall(r), "PTS") \notin NumericCells
               \/ Column(Overall(r), "FGA") \notin NumericCells))

\* C3 (as stated): whenever the current season lacks data or a required statistic,
\* the previous season is tried
C3_FallsBackOnMissingStatistic ==
    (statsPc = "done" /\ (SeasonDataAbsent(curResponse) \/ StatisticMissing(curResponse)))
        => PreviousSeasonCalls # {}

\* C3 (amended): the previous season is tried exactly when the current-season response
\* parses and has no result sets, no OverallPlayerDashboard result set or no rows; with
\* a row that lacks a column or a numeric value the result is no-result, with no
\* previous-season call
C3_FallsBackExactlyWhenSeasonDataAbsent ==
    /\ curResponse # NoResponse =>
           (PreviousSeasonCalls # {} <=> SeasonDataAbsent(curResponse))
    /\ (statsPc = "done" /\ StatisticMissing(curResponse)) =>
           (stats = NullStats /\ Len(outbound) = 1)

C3_Witness ==
    /\ statsPc = "done"
    /\ SeasonDataAbsent(curResponse)
    /\ stats.tag = "stats"
    /\ PreviousSeasonCalls # {}

\* C4: every PlayerStats that fetchPlayerSeasonAverages returns has fga different from 0
C4_ReturnedFgaNonZero ==
    stats.tag = "stats" => stats.fga # Fin(0)

\* the identity lookup failed: exception, non-success status, no result sets, no row
\* set, or no FIRST_NAME / LAST_NAME column
IdentityLookupFailed(r) ==
    \/ r.kind = "throw"
    \/ r.kind = "http" /\ r.status \notin 200..299
    \/ /\ Parsed(r)
       /\ \/ ~r.hasResultSets
          \/ r.resultSets = <<>>
          \/ ~r.resultSets[1].hasRowSet
          \/ (r.resultSets[1].hasHeaders
              /\ (~HasColumn(r.resultSets[1], "FIRST_NAME") \/ ~HasColumn(r.resultSets[1], "LAST_NAME")))

\* C5: a failed identity lookup leaves the names empty and the stats result is returned
C5_IdentityFailureKeepsStats ==
    (statsPc = "done" /\ IdentityLookupFailed(playerResponse)) =>
        /\ stats.tag = "stats"
        /\ stats.player.first_name = ""
        /\ stats.player.last_name = ""

\* C6: a successful current-season response without an OverallPlayerDashboard result set
\* is followed by exactly one previous-season dashboard call, and when that yields
\* nothing the result is no-result with no further dashboard call
C6_ExactlyOnePreviousSeasonLookup ==
    (Parsed(curResponse) /\ NoOverallDashboard(curResponse)) =>
        /\ Cardinality(PreviousSeasonCalls) = 1
        /\ Cardinality(DashboardCalls) = 2
        /\ (statsPc = "done" /\ PlayerInfoCalls = {}) => stats = NullStats

C6_Witness ==
    /\ statsPc = "done"
    /\ Parsed(curResponse)
    /\ curResponse.resultSets = <<OtherResultSet>>
    /\ prevResponse # NoResponse
    /\ stats = NullStats
    /\ Len(outbound) = 2

\* what each outbound call of the stats client asks for, in the order of issue
CallKinds ==
    [i \in 1..Len(outbound) |->
        IF ~IsDashboardCall(outbound[i]) THEN outbound[i].url.endpoint
        ELSE IF outbound[i].url.Season = getCurrentSeason(today) THEN "current"
        ELSE IF outbound[i].url.Season = getPreviousSeason(today) THEN "previous"
        ELSE "other"]

\* the responses the stats client has received
ResponsesReceived ==
    Cardinality({i \in 1..3 : <<curResponse, prevResponse, playerResponse>>[i] # NoResponse})

\* the dashboard response the client read last
LastDashboardResponse == IF prevResponse # NoResponse THEN prevResponse ELSE curResponse

CallsInOrder ==
    /\ CallKinds \in {<<>>, <<"current">>, <<"current", "previous">>,
                      <<"current", "commonplayerinfo">>,
                      <<"current", "previous", "commonplayerinfo">>}
    /\ ResponsesReceived =
           Len(outbound) - (IF statsPc \in {"awaitCur", "awaitPrev", "awaitInfo"} THEN 1 ELSE 0)
    /\ PlayerInfoCalls # {} =>
           LET r == LastDashboardResponse IN
           /\ Parsed(r)
           /\ ~SeasonDataAbsent(r)
           /\ HasColumn(Overall(r), "PTS")
           /\ HasColumn(Overall(r), "FGA")
           /\ pts = ToNumber(Column(Overall(r), "PTS"))
           /\ fga = ToNumber(Column(Overall(r), "FGA"))
           /\ ~isNaN(pts)
           /\ ~isNaN(fga)
           /\ fga # Fin(0)

\* C15: one invocation of fetchPlayerSeasonAverages issues at most three calls, each
\* after the response to the one before: the current-season dashboard, then possibly
\* the previous-season dashboard, then the identity lookup, which is issued at most
\* once and only after a dashboard response gave numeric pts and a non-zero fga; once
\* the function has returned no call is issued until the next invocation
C15_AtMostThreeSequentialCalls ==
    /\ []CallsInOrder
    /\ [][statsPc = "done" =>
              \/ outbound' = <<>>
              \/ (statsPc' = "awaitCur" /\ Len(outbound') = 1)]_vars

C15_Witness ==
    /\ statsPc = "done"
    /\ CallKinds = <<"current", "previous", "commonplayerinfo">>
    /\ stats # NullStats
    /\ stats # Pending

\* C9: a non-finite Number(id) gives 400 and no client call; otherwise the client is
\* called once and the response is 404 on no-result and 200 {data: stats} on a record
C9_StatsEndpointStatuses ==
    /\ statsPc = "done" =>
        /\ statsHttp.status \in {200, 400, 404}
        /\ ~isFinite(StringToNumber(idParam)) =>
               /\ statsHttp = [status |-> 400, body |-> [error |-> "Invalid player ID"]]
               /\ clientCalls = 0
               /\ outbound = <<>>
        /\ isFinite(StringToNumber(idParam)) =>
               /\ clientCalls = 1
               /\ stats = NullStats =>
                      statsHttp = [status |-> 404, body |-> [error |-> "Player stats not found"]]
               /\ stats # NullStats =>
                      (stats.tag = "stats" /\ statsHttp = [status |-> 200, body |-> [data |-> stats]])
    /\ idParam \in {"abc", "7a", InfinityLiteral} => (clientCalls = 0 /\ outbound = <<>>)
    /\ clientCalls <= 1

C9_Witness ==
    /\ statsPc = "done"
    /\ idParam = " 7"
    /\ statsHttp.status = 404
    /\ clientCalls = 1

-----------------------------------------------------------------------------
(* Properties of searchPlayers and the search endpoint (under SpecSearch) *)

ZeroedEnvelope ==
    [data |-> <<>>,
     meta |-> [total_pages |-> 0, current_page |-> 1, next_page |-> NullCell,
               per_page |-> 25, total_count |-> 0]]

\* C7: a missing or empty q is answered 200 with the zeroed envelope, and searchPlayers
\* is not called
C7_EmptyQueryEnvelope ==
    (searchPc = "done" /\ qParam \in {NullParam, Param("")}) =>
        /\ searchHttp = [status |-> 200, body |-> ZeroedEnvelope]
        /\ searchCalls = 0
        /\ searchOutbound = <<>>
        /\ searchReturn = NoReturn

C7_Witness ==
    /\ searchPc = "done"
    /\ qParam = Param("")
    /\ searchHttp.status = 200
    /\ searchCalls = 0

\* C8: for a non-empty q the response is 503 carrying the error string exactly when
\* searchPlayers reported one, and 200 without an error field otherwise; an exception
\* while delegating is answered 200 with the zeroed envelope; 500 is never answered
C8_SearchEndpointStatuses ==
    /\ (searchPc = "done" /\ qParam \notin {NullParam, Param("")}) =>
        /\ searchCalls = 1
        /\ searchReturn.hasError =>
               /\ searchHttp.status = 503
               /\ searchHttp.body = [data |-> searchReturn.data,
                                     meta |-> [total_pages |-> 1, current_page |-> 1,
                                               next_page |-> NullCell, per_page |-> 25,
                                               total_count |-> Len(searchReturn.data)],
                                     error |-> searchReturn.error]
        /\ ~searchReturn.hasError =>
               /\ searchHttp.status = 200
               /\ searchHttp.body = [data |-> searchReturn.data,
                                     meta |-> [total_pages |-> 1, current_page |-> 1,
                                               next_page |-> NullCell, per_page |-> 25,
                                               total_count |-> Len(searchReturn.data)]]
    /\ searchHttp.status \in {0, 200, 503}
    /\ SearchRouteResponse(Thrown) = [status |-> 200, body |-> ZeroedEnvelope]

C8_Witness ==
    /\ searchPc = "done"
    /\ qParam = Param("bron")
    /\ searchReturn.hasError
    /\ searchHttp.status = 503

MalformedPayload(r) ==
    /\ r.kind = "http"
    /\ r.status \in 200..299
    /\ \/ ~r.json
       \/ ~r.hasResultSets
       \/ r.resultSets = <<>>
       \/ ~r.resultSets[1].hasRowSet
       \/ r.resultSets[1].rowSet = <<>>

\* C10: searchPlayers always returns: an empty list with the message chosen by status
\* on a non-success status, an empty list without a message on a network exception or
\* a malformed payload
C10_SearchPlayersNeverThrows ==
    (searchPc = "done" /\ searchCalls = 1) =>
        /\ searchReturn.tag = "return"
        /\ (playersResponse.kind = "http" /\ playersResponse.status \notin 200..299) =>
               /\ searchReturn.data = <<>>
               /\ searchReturn.hasError
               /\ playersResponse.status = 403 =>
                      searchReturn.error.text = "NBA API blocked this request (proxy or origin may be blocked). Try Render or another host for the proxy."
               /\ playersResponse.status = 502 =>
                      searchReturn.error.text = "Proxy could not reach NBA API. Check proxy logs."
               /\ playersResponse.status \notin {403, 502} =>
                      searchReturn.error = [text |-> "Search failed: ", status |-> playersResponse.status]
        /\ (playersResponse.kind = "throw" \/ MalformedPayload(playersResponse)) =>
               /\ searchReturn.data = <<>>
               /\ ~searchReturn.hasError

C10_Witness ==
    /\ searchPc = "done"
    /\ playersResponse.kind = "throw"
    /\ searchReturn.tag = "return"
    /\ searchReturn.data = <<>>

\* the row is an active player: roster status 1 or games-played flag "Y"
RowIsActive(row) == At(row, 3) = NumCell(100) \/ At(row, 14) = StrCell("Y")

\* the name cell holds a name that contains q, as a whole or in one of its tokens
NameContains(cell, sep, q) ==
    /\ cell.t = "str"
    /\ LET name == toLowerCase(cell.s)
           tokens == split(name, sep)
       IN  \/ includes(name, q)
           \/ \E i \in 1..Len(tokens) : includes(tokens[i], q)

\* the rows of the table searchPlayers is to return for the query, in upstream order
MatchingActiveRows(rowSet, query) ==
    LET q == Trim(toLowerCase(query))
        Wanted(row) == /\ RowIsActive(row)
                       /\ \/ NameContains(At(row, 2), " ", q)
                          \/ NameContains(At(row, 1), ", ", q)
    IN  SelectSeq(rowSet, Wanted)

\* C11: for a non-blank query and a successful player table, searchPlayers returns
\* exactly the first 25 active rows, in upstream order, whose "First Last" or
\* "Last, First" name contains the lower-cased trimmed query, and never more than 25;
\* a blank query returns an empty list without a network call
C11_ReturnsFirstMatchingActivePlayers ==
    (searchPc = "done" /\ searchCalls = 1) =>
        /\ Len(searchReturn.data) <= 25
        /\ Trim(qParam.value) = "" => (searchReturn.data = <<>> /\ searchOutbound = <<>>)
        /\ (/\ Trim(qParam.value) # ""
            /\ ok(playersResponse)
            /\ ~MalformedPayload(playersResponse)) =>
               LET wanted == MatchingActiveRows(playersResponse.resultSets[1].rowSet,
                                                qParam.value)
                   n == IF Len(wanted) < 25 THEN Len(wanted) ELSE 25
               IN  /\ Len(searchReturn.data) = n
                   /\ \A i \in 1..n : searchReturn.data[i].id = wanted[i][1]

\* C11, on tables in which no active row has a name cell that is not a string: the
\* list returned is the first 25 matching active rows
C11_WellFormedTable ==
    (/\ searchPc = "done"
     /\ searchCalls = 1
     /\ Trim(qParam.value) # ""
     /\ ok(playersResponse)
     /\ ~MalformedPayload(playersResponse)
     /\ LET rows == playersResponse.resultSets[1].rowSet
        IN  \A i \in 1..Len(rows) :
                RowIsActive(rows[i]) => (At(rows[i], 1).t = "str" /\ At(rows[i], 2).t = "str")) =>
        LET wanted == MatchingActiveRows(playersResponse.resultSets[1].rowSet, qParam.value)
            n == IF Len(wanted) < 25 THEN Len(wanted) ELSE 25
        IN  /\ Len(searchReturn.data) = n
            /\ \A i \in 1..n : searchReturn.data[i].id = wanted[i][1]

C11_CapReached ==
    /\ searchPc = "done"
    /\ ok(playersResponse)
    /\ ~MalformedPayload(playersResponse)
    /\ Len(playersResponse.resultSets[1].rowSet) > 25
    /\ Len(searchReturn.data) = 25

-----------------------------------------------------------------------------
(* Properties of the component (under SpecUI) *)

\* C1: no search request is sent for a query whose trimmed text is shorter than 3
\* characters, neither by the debounced effect nor by the Enter-key handler
C1_NoSearchBelowThreeCharacters ==
    \A i \in 1..Len(searchInflight) : Len(Trim(searchInflight[i].q)) >= 3

\* C2: the response to a debounced search that the query has since moved away from
\* changes neither searchResults nor searchMeta
C2_SupersededResponseIgnored ==
    [][\A i \in 1..Len(searchInflight) :
          (/\ searchInflight[i].kind = "debounce"
           /\ searchInflight[i].cleaned
           /\ searchInflight' = Remove(searchInflight, i))
          => (searchResults' = searchResults /\ searchMeta' = searchMeta)]_vars

\* 30 / (pts / fga) rounded to one decimal
ShotCount(p, f) == Fin(RoundTenth((3000 * f.v) \div p.v))

\* the stats response r, a record with non-zero fga (and, if asked, non-zero pts),
\* arrives for the i-th request in flight and the result shown is computed from it
ShowsShotCount(i, r, nonZeroPts) ==
    (/\ StatsResponse(i, r)
     /\ r.kind = "http"
     /\ r.status = 200
     /\ r.body # Null
     /\ r.body.data.fga # Fin(0)
     /\ nonZeroPts => r.body.data.pts # Fin(0)) =>
        /\ result' # Null
        /\ ~loading'
        /\ result'.shots = ShotCount(r.body.data.pts, r.body.data.fga)
        /\ result'.pts = r.body.data.pts
        /\ result'.fga = r.body.data.fga

\* C13 as stated: for every stats record received with non-zero fga the result shown
\* has the shot count 30 / (pts / fga) rounded to one decimal and the record's pts and
\* fga
C13_ShotCountForNonZeroFga ==
    [][\A i \in 1..Len(statsInflight) :
          \A r \in UIStatsResponses(statsInflight[i].player) :
              ShowsShotCount(i, r, FALSE)]_vars

\* C13: for every stats record received with non-zero fga and non-zero pts the result
\* shown has the shot count 30 / (pts / fga) rounded to one decimal and the record's
\* pts and fga
C13_ShotCountForNonZeroFgaAndPts ==
    [][\A i \in 1..Len(statsInflight) :
          \A r \in UIStatsResponses(statsInflight[i].player) :
              ShowsShotCount(i, r, TRUE)]_vars

C13_Witness ==
    /\ result # Null
    /\ ~loading
    /\ result.pts = Fin(2750)
    /\ result.fga = Fin(2000)
    /\ result.shots = Fin(2180)

\* the season that starts in year y: y, a hyphen, the last two digits of y + 1
SeasonStartingIn(y) ==
    LET n == (y + 1) % 100
    IN  ToString(y) \o "-" \o CharAt("0123456789", (n \div 10) + 1)
                           \o CharAt("0123456789", (n % 10) + 1)

\* the start year a season string names
StartYear(season) == DigitsValue(SubSeq(season, 1, Len(season) - 3))

\* C14: getCurrentSeason is the season starting in the year of the date from October
\* on and in the year before it up to September, written as start year, hyphen, last
\* two digits of the following year; getPreviousSeason starts exactly one year earlier;
\* the dashboard calls of the stats client carry these seasons
C14_SeasonBoundary ==
    LET y == IF today.month >= 10 THEN today.year ELSE today.year - 1
    IN  /\ getCurrentSeason(today) = SeasonStartingIn(y)
        /\ getPreviousSeason(today) = SeasonStartingIn(y - 1)
        /\ StartYear(getPreviousSeason(today)) = StartYear(getCurrentSeason(today)) - 1
        /\ \A i \in DashboardCalls :
               outbound[i].url.Season = SeasonStartingIn(IF i = 1 THEN y ELSE y - 1)

C14_Witness ==
    /\ today = [year |-> 2000, month |-> 9]
    /\ Len(outbound) >= 2
    /\ outbound[1].url.Season = "1999-00"
    /\ outbound[2].url.Season = "1998-99"

\* C16: searchLoading is true only while a debounce timer is pending or a search
\* request is in flight: with no timer pending and no search request outstanding it
\* is false
C16_SpinnerOnlyWhileSearching ==
    (~timer.pending /\ searchInflight = <<>>) => ~searchLoading

\* C17: the result shown belongs to the current selection: with no stats request in
\* flight the result is null when no player is selected, and the response to a
\* request sent for an earlier selection, arriving after the selection was changed or
\* cleared, leaves result and error as they are
C17_ResultBelongsToSelection ==
    /\ []((statsInflight = <<>> /\ selectedPlayer = Null) => result = Null)
    /\ [][\A i \in 1..Len(statsInflight) :
              (/\ statsInflight' = Remove(statsInflight, i)
               /\ statsInflight[i].player # selectedPlayer) =>
                  (result' = result /\ error' = error)]_vars

-----------------------------------------------------------------------------
(* Proxy properties *)

ValidProxyUrl(req) ==
    ~req.url.isNull /\ startsWith(req.url.value, "https://stats.nba.com/")

\* the outcome of an answered request is the one its class calls for
ProxyOutcomeByClass ==
    proxyPc = "done" =>
        /\ proxyReq.method # "GET" => (proxyRes.status = 405 /\ proxyFetches = <<>>)
        /\ (proxyReq.method = "GET" /\ ~ValidProxyUrl(proxyReq)) =>
               /\ proxyRes.status = 400
               /\ proxyRes.contentType = Param("application/json")
               /\ proxyRes.body = "Missing or invalid url query (must be stats.nba.com)"
               /\ proxyFetches = <<>>
        /\ (proxyReq.method = "GET" /\ ValidProxyUrl(proxyReq)) =>
               /\ Len(proxyFetches) = 1
               /\ proxyFetches[1].url = proxyReq.url.value
               /\ \/ /\ proxyRes.status = 502
                     /\ proxyRes.contentType = Param("application/json")
                     /\ proxyRes.body = "Proxy fetch failed"
                  \/ /\ proxyRes.status \in {200, 403, 404, 500}
                     /\ proxyRes.body = "upstream body"

\* the upstream is contacted only for a GET whose url starts with the upstream origin
ProxyContactsUpstreamOnlyWhenValid ==
    proxyFetches # <<>> => (proxyReq.method = "GET" /\ ValidProxyUrl(proxyReq))

\* C12: every request to the proxy ends in exactly one of the outcomes 405 (method
\* is not GET), 400 with a JSON error body (url missing or not under the upstream
\* origin), 502 with a JSON error body (the upstream fetch failed), or the mirrored
\* upstream status and content type; the upstream is contacted only for a GET with a
\* url under the upstream origin
C12_ProxyClassifiesEveryRequest ==
    /\ proxyPc \in {"idle", "awaitUpstream", "done"}
    /\ ProxyOutcomeByClass
    /\ ProxyContactsUpstreamOnlyWhenValid

\* C12, for the requests whose target new URL accepts
C12_AnsweredRequestsAreClassified ==
    ProxyOutcomeByClass /\ ProxyContactsUpstreamOnlyWhenValid

C12_Unanswered ==
    /\ proxyPc \in {"hung", "crashed"}
    /\ proxyReq.method = "GET"
    /\ proxyRes = NoProxyResponse

====
